---- MODULE Spec2Model ----
\* A model of youtube_dl/utility/batch_download.py: the download cache
\* (BatchFileDownloadCache: an sqlite3 index plus a directory tree of blobs)
\* and the gevent worker pool (DownloadWorker) that fills it.
\*
\* Text (URLs, paths, digests) is a sequence of one-character strings, so that
\* startswith, index, slicing and split are computed as the code computes them.
\* Bytes are sequences of integers.  The file system is a set of directories
\* and a map from file paths to their bytes; a path is the sequence of its
\* component names, counted from "/".
EXTENDS Integers, Sequences, FiniteSets, TLC

VARIABLES
    rows,       \* the sqlite3 table, in ID order (autoincrement: insertion order)
    dirs,       \* the directories that exist
    files,      \* the regular files that exist: path -> bytes
    now,        \* datetime.utcnow(), in ticks (TicksPerSecond to the second)
    last,       \* the most recent call on the cache manager and what it returned
    ticks,      \* how many times the clock was advanced (bounded by MaxTicks)
    phase,      \* init_and_submit_direct_jobs: "idle", "running", "returned"
    runs,       \* how many pool runs were started (bounded by MaxRuns)
    queue_jobs_todo,  \* DownloadWorker.queue_jobs_todo
    queue_cache_mgr,  \* DownloadWorker.queue_cache_mgr: holds the manager or nothing
    pc,         \* where each worker greenlet is in download() / commit_job()
    job,        \* each worker's local variable job
    tries,      \* each worker's local variable tries
    content,    \* each worker's res.content, between the request and the commit
    requests,   \* per job of this run: how many times session.get was called for it
    delivered,  \* per job of this run: the workers whose queue get returned it
    seeded,     \* jobs_filtered: the jobs this run put on the queue
    committed   \* per job of this run: the data commit_job was called with

cache_vars == <<rows, dirs, files>>
pool_vars == <<phase, runs, queue_jobs_todo, queue_cache_mgr, pc, job, tries,
               content, requests, delivered, seeded, committed>>
vars == <<rows, dirs, files, now, last, ticks, phase, runs, queue_jobs_todo,
          queue_cache_mgr, pc, job, tries, content, requests, delivered, seeded, committed>>

-----------------------------------------------------------------------------
\* Bounds of the model.

MaxRows == 2        \* cache_put is tried only while the table has fewer rows
MaxTicks == 2       \* the clock is advanced at most this many times
MaxThreads == 2     \* the largest threads argument of a pool run
MaxJobs == 2        \* the longest job list handed to a pool run
MaxRuns == 1        \* pool runs per behaviour
TicksPerSecond == 2 \* the resolution of the clock: ticks in one second

-----------------------------------------------------------------------------
\* Program constants.

CACHE_VALID_DAYS == 3
TRIES == 5

\* One second and one day in clock ticks.
SECOND == TicksPerSecond
DAY == 86400 * SECOND

-----------------------------------------------------------------------------
\* Text helpers (Python str operations).

Lower == {"a","b","c","d","e","f","g","h","i","j","k","l","m",
          "n","o","p","q","r","s","t","u","v","w","x","y","z"}
Upper == {"A","B","C","D","E","F","G","H","I","J","K","L","M",
          "N","O","P","Q","R","S","T","U","V","W","X","Y","Z"}
Digit == {"0","1","2","3","4","5","6","7","8","9"}
Punct == {"/","=","-","_",":",",","."}
Space == {" "}
\* 'a' <= c <= 'z' or 'A' <= c <= 'Z' or '0' <= c <= '9' or c in '/=-_:,.'
Allowed == Lower \cup Upper \cup Digit \cup Punct

SEP == <<":","/","/">>
HTTP == <<"h","t","t","p",":","/","/">>
HTTPS == <<"h","t","t","p","s",":","/","/">>

\* s.startswith(p)
StartsWith(s, p) == Len(s) >= Len(p) /\ SubSeq(s, 1, Len(p)) = p

\* s.index(p): the 0-based position of the first occurrence (p occurs in s)
Index(s, p) ==
    (CHOOSE i \in 1..Len(s) :
        /\ StartsWith(SubSeq(s, i, Len(s)), p)
        /\ \A j \in 1..(i-1) : ~StartsWith(SubSeq(s, j, Len(s)), p)) - 1

\* s[p:]
From(s, p) == SubSeq(s, p + 1, Len(s))

\* s.strip()
RECURSIVE LStrip(_)
LStrip(s) == IF s # <<>> /\ Head(s) \in Space THEN LStrip(Tail(s)) ELSE s
RECURSIVE RStrip(_)
RStrip(s) == IF s # <<>> /\ s[Len(s)] \in Space
             THEN RStrip(SubSeq(s, 1, Len(s) - 1)) ELSE s
Strip(s) == RStrip(LStrip(s))

\* s.split('/'): the pieces between the slashes, from position i on, the
\* current piece having started at position start
RECURSIVE SplitAt(_, _, _)
SplitAt(s, start, i) ==
    IF i > Len(s) THEN <<SubSeq(s, start, Len(s))>>
    ELSE IF s[i] = "/" THEN <<SubSeq(s, start, i - 1)>> \o SplitAt(s, i + 1, i + 1)
    ELSE SplitAt(s, start, i + 1)
Split(s) == SplitAt(s, 1, 1)

\* The names the file system gives a meaning to
EMPTY == <<>>
DOT == <<".">>
DOTDOT == <<".", ".">>

\* len(s.rstrip('/')), looking from position i down
RECURSIVE RStripSlashLen(_, _)
RStripSlashLen(s, i) ==
    IF i > 0 /\ s[i] = "/" THEN RStripSlashLen(s, i - 1) ELSE i
\* s.rstrip('/')
RStripSlash(s) == SubSeq(s, 1, RStripSlashLen(s, Len(s)))

\* s.rfind('/') + 1, looking from position i down
RECURSIVE RFindSlash(_, _)
RFindSlash(s, i) == IF i = 0 \/ s[i] = "/" THEN i ELSE RFindSlash(s, i - 1)
AfterLastSlash(s) == RFindSlash(s, Len(s))

AllSlashes(s) == \A i \in 1..Len(s) : s[i] = "/"

\* posixpath.split(p) -> (head, tail), as os.makedirs uses it
SplitHead(head) == IF head # <<>> /\ ~AllSlashes(head) THEN RStripSlash(head) ELSE head
PathSplitAt(p, i) == [head |-> SplitHead(SubSeq(p, 1, i)), tail |-> SubSeq(p, i + 1, Len(p))]
PathSplit(p) == PathSplitAt(p, AfterLastSlash(p))

-----------------------------------------------------------------------------
\* datetime <-> text, sql_time_format = "%Y-%m-%dT%H:%M:%SZ": the text keeps
\* whole seconds and drops the fraction.  A formatted time is the number of
\* whole seconds it names.

strftime(t) == t \div SECOND
strptime(s) == s * SECOND
timedelta_days(n) == n * DAY

-----------------------------------------------------------------------------
\* hashlib.md5(data).hexdigest(), for the payloads of the model.

B_EMPTY == <<>>
B_A == <<97>>
B_B == <<98>>

MD5_EMPTY == <<"d","4","1","d","8","c","d","9","8","f","0","0","b","2","0","4",
               "e","9","8","0","0","9","9","8","e","c","f","8","4","2","7","e">>
MD5_A == <<"0","c","c","1","7","5","b","9","c","0","f","1","b","6","a","8",
           "3","1","c","3","9","9","e","2","6","9","7","7","2","6","6","1">>
MD5_B == <<"9","2","e","b","5","f","f","e","e","6","a","e","2","f","e","c",
           "3","a","d","7","1","c","7","7","7","5","3","1","5","7","8","f">>

cache_file_data_checksum(data) ==
    CASE data = B_EMPTY -> MD5_EMPTY
      [] data = B_A -> MD5_A
      [] data = B_B -> MD5_B

-----------------------------------------------------------------------------
\* The file system, as os.path.exists / isdir / isfile, os.makedirs, open and
\* os.remove see it.  fs is a record [dirs, files].

\* self.prefix: an existing directory (asserted in __init__)
Prefix == <<"/","c","a","c","h","e">>
PrefixPath == <<<<"c","a","c","h","e">>>>
\* os.path.join(prefix, default_sqlite3_file_name): the index lives in the root
DbPath == <<<<"c","a","c","h","e">>,
            <<"c","a","c","h","e",".","s","q","l","i","t","e","3">>>>
\* The bytes of the sqlite3 file are never read by the model.
DbBytes == <<83, 81, 76>>

\* The one element of a singleton set.  An argument bound as the element of
\* {e} is evaluated once, where it is used more than once.
The(S) == CHOOSE v \in S : TRUE

Kind(fs, path) ==
    IF path \in fs.dirs THEN "dir"
    ELSE IF path \in DOMAIN fs.files THEN "file"
    ELSE "none"

Parent(path) == IF path = <<>> THEN <<>> ELSE SubSeq(path, 1, Len(path) - 1)

\* Path resolution: follow the components from cur.  Every component, the
\* empty one and "." included, needs the current node to be a directory.
RECURSIVE WalkFrom(_, _, _)
Step(cur, c) ==
    IF c = EMPTY \/ c = DOT THEN cur
    ELSE IF c = DOTDOT THEN Parent(cur)
    ELSE Append(cur, c)

WalkFrom(fs, comps, cur) ==
    IF comps = <<>> THEN [st |-> "ok", path |-> cur]
    ELSE IF cur \in fs.dirs THEN WalkFrom(fs, Tail(comps), Step(cur, Head(comps)))
    ELSE IF cur \in DOMAIN fs.files THEN [st |-> "ENOTDIR", path |-> cur]
    ELSE [st |-> "ENOENT", path |-> cur]

Walk(fs, text) == The({WalkFrom(fs, comps, <<>>) : comps \in {Split(text)}})

\* What os.stat finds at the path: "dir", "file" or "none"
StatOf(fs, w) == IF w.st = "ok" THEN Kind(fs, w.path) ELSE "none"
Stat(fs, text) == The({StatOf(fs, w) : w \in {Walk(fs, text)}})

exists(fs, text) == Stat(fs, text) # "none"
isdir(fs, text) == Stat(fs, text) = "dir"
isfile(fs, text) == Stat(fs, text) = "file"

\* os.mkdir / open at the node target under the resolved parent w
MkdirAt(fs, w, lastc) ==
    IF w.st # "ok" THEN [fs |-> fs, err |-> w.st]
    ELSE IF Kind(fs, w.path) = "none" THEN [fs |-> fs, err |-> "ENOENT"]
    ELSE IF Kind(fs, w.path) = "file" THEN [fs |-> fs, err |-> "ENOTDIR"]
    ELSE IF lastc \in {DOT, DOTDOT} THEN [fs |-> fs, err |-> "EEXIST"]
    ELSE IF Kind(fs, Append(w.path, lastc)) # "none" THEN [fs |-> fs, err |-> "EEXIST"]
    ELSE [fs |-> [fs EXCEPT !.dirs = @ \cup {Append(w.path, lastc)}], err |-> "ok"]

MkdirComps(fs, comps) ==
    The({MkdirAt(fs, w, comps[Len(comps)]) :
            w \in {WalkFrom(fs, SubSeq(comps, 1, Len(comps) - 1), <<>>)}})

\* os.mkdir(name): err is "ok", "EEXIST" (FileExistsError) or another OSError
mkdir(fs, name) ==
    IF RStripSlash(name) = <<>> THEN [fs |-> fs, err |-> "EEXIST"]
    ELSE The({MkdirComps(fs, comps) : comps \in {Split(RStripSlash(name))}})

\* os.makedirs(name), exist_ok=False
RECURSIVE makedirs(_, _)
MakedirsTail(fs, name, recurse, sub, tail) ==
    IF recurse /\ sub.err \notin {"ok", "EEXIST"} THEN sub
    ELSE IF recurse /\ tail = DOT THEN [fs |-> sub.fs, err |-> "ok"]
    ELSE mkdir(sub.fs, name)

MakedirsSplit(fs, name, s, recurse) ==
    The({MakedirsTail(fs, name, recurse, sub, s.tail) :
            sub \in {IF recurse THEN makedirs(fs, s.head)
                     ELSE [fs |-> fs, err |-> "ok"]}})

MakedirsHead(fs, name, s) ==
    The({MakedirsSplit(fs, name, s, recurse) :
            recurse \in {s.head # <<>> /\ s.tail # <<>> /\ ~exists(fs, s.head)}})

MakedirsName(fs, name, s) ==
    IF s.tail = <<>>
    THEN The({MakedirsHead(fs, name, s2) : s2 \in {PathSplit(s.head)}})
    ELSE MakedirsHead(fs, name, s)

makedirs(fs, name) ==
    The({MakedirsName(f, n, s) : f \in {fs}, n \in {name}, s \in {PathSplit(name)}})

OpenAt(fs, w, lastc, data) ==
    IF w.st # "ok" THEN [fs |-> fs, err |-> w.st]
    ELSE IF Kind(fs, w.path) = "none" THEN [fs |-> fs, err |-> "ENOENT"]
    ELSE IF Kind(fs, w.path) = "file" THEN [fs |-> fs, err |-> "ENOTDIR"]
    ELSE IF lastc \in {EMPTY, DOT, DOTDOT} \/ Kind(fs, Append(w.path, lastc)) = "dir"
         THEN [fs |-> fs, err |-> "EISDIR"]
    ELSE [fs |-> [fs EXCEPT !.files =
                     [p \in DOMAIN @ \cup {Append(w.path, lastc)} |->
                         IF p = Append(w.path, lastc) THEN data ELSE @[p]]],
          err |-> "ok"]

OpenComps(fs, comps, data) ==
    The({OpenAt(fs, w, comps[Len(comps)], data) :
            w \in {WalkFrom(fs, SubSeq(comps, 1, Len(comps) - 1), <<>>)}})

\* open(path, 'wb') followed by write(data): creates or truncates the file
open_wb_write(fs, text, data) ==
    The({OpenComps(fs, comps, data) : comps \in {Split(text)}})

\* open(path, 'rb').read() of a path that isfile() accepted
read(fs, text) == fs.files[Walk(fs, text).path]

\* os.remove(path) of a path that isfile() accepted
remove(fs, text) ==
    LET target == Walk(fs, text).path
    IN [fs EXCEPT !.files = [p \in DOMAIN @ \ {target} |-> @[p]]]

-----------------------------------------------------------------------------
\* BatchFileDownloadCache.  A cache state c is a record [rows, dirs, files];
\* a row is [gmt_created, url, file_path_relative, file_length].

Fs(c) == [dirs |-> c.dirs, files |-> c.files]
WithFs(c, fs) == [c EXCEPT !.dirs = fs.dirs, !.files = fs.files]

\* A variant of is_url_valid_and_safe that looks at the scheme only
is_url_valid_and_safe_scheme(url) ==
    StartsWith(url, HTTP) \/ StartsWith(url, HTTPS)

is_url_valid_and_safe(url) ==
    IF ~(StartsWith(url, HTTP) \/ StartsWith(url, HTTPS)) THEN FALSE
    ELSE \A i \in (Index(url, SEP) + 4)..Len(url) : url[i] \in Allowed

\* WHERE url = "%s" % url.  sqlite reads a double-quoted token as a column
\* name when the table has that column and as a string otherwise: the text
\* url names the column itself, which every row equals.
COL_URL == <<"u","r","l">>
SqlUrlEquals(row, url) == IF url = COL_URL THEN TRUE ELSE row.url = url

Selected(rs, url) == {i \in 1..Len(rs) : SqlUrlEquals(rs[i], url)}

\* DELETE FROM table WHERE url = "%s"
RECURSIVE Delete(_, _)
Delete(rs, url) ==
    IF rs = <<>> THEN <<>>
    ELSE IF SqlUrlEquals(Head(rs), url) THEN Delete(Tail(rs), url)
    ELSE <<Head(rs)>> \o Delete(Tail(rs), url)

NotFound == [found |-> FALSE, data |-> <<>>]

\* A variant of Broken that compares the length only
Broken_length(data, file_length, file_path, verify_checksum) ==
    Len(data) # file_length

\* Lines 82-99 of cache_get: whether the file read back is consistent with
\* the row (its length, and its name when verify_checksum is set)
Broken(data, file_length, file_path, verify_checksum) ==
    IF Len(data) # file_length THEN TRUE
    ELSE IF verify_checksum
         THEN LET parts == Split(file_path)
              IN cache_file_data_checksum(data) # parts[Len(parts)]
    ELSE FALSE

\* Lines 100-105 of cache_get: delete the rows and the file, return None
Evict(c, url, file_path, present) ==
    [c |-> IF present
           THEN WithFs([c EXCEPT !.rows = Delete(@, url)], remove(Fs(c), file_path))
           ELSE [c EXCEPT !.rows = Delete(@, url)],
     ret |-> NotFound]

\* A variant of GetRow that takes a row aged exactly CACHE_VALID_DAYS for
\* expired (<= where line 76 has <)
GetRow_le(c, url, r, file_path, present, drop_it, verify_checksum, t) ==
    IF /\ ~drop_it
       /\ ~(strptime(r.gmt_created) + timedelta_days(CACHE_VALID_DAYS) <= t)
       /\ present
       /\ ~Broken(read(Fs(c), file_path), r.file_length, file_path, verify_checksum)
    THEN [c |-> c, ret |-> [found |-> TRUE, data |-> read(Fs(c), file_path)]]
    ELSE Evict(c, url, file_path, present)

\* Lines 73-105 of cache_get, for the row r that fetchone() returned
GetRow(c, url, r, file_path, present, drop_it, verify_checksum, t) ==
    IF /\ ~drop_it
       /\ ~(strptime(r.gmt_created) + timedelta_days(CACHE_VALID_DAYS) < t)
       /\ present
       /\ ~Broken(read(Fs(c), file_path), r.file_length, file_path, verify_checksum)
    THEN [c |-> c, ret |-> [found |-> TRUE, data |-> read(Fs(c), file_path)]]
    ELSE Evict(c, url, file_path, present)

FirstOf(sel) == CHOOSE i \in sel : \A j \in sel : i <= j

\* cache_get(url, drop_it, verify_checksum) at time t: the cache afterwards
\* and the value returned (None is found = FALSE)
cache_get(c, url, drop_it, verify_checksum, t) ==
    IF Selected(c.rows, url) = {} THEN [c |-> c, ret |-> NotFound]
    ELSE LET r == c.rows[FirstOf(Selected(c.rows, url))]
         IN GetRow(c, url, r, Prefix \o <<"/">> \o r.file_path_relative,
                   isfile(Fs(c), Prefix \o <<"/">> \o r.file_path_relative),
                   drop_it, verify_checksum, t)

\* cache_drop(url) at time t
cache_drop(c, url, t) == cache_get(c, url, TRUE, TRUE, t).c

\* Lines 118-121 of cache_put: the folder is there, or is made
EnsureFolder(fs, file_folder) ==
    IF exists(fs, file_folder)
    THEN [fs |-> fs, err |-> IF isdir(fs, file_folder) THEN "ok" ELSE "assert"]
    ELSE makedirs(fs, file_folder)

\* Lines 129-131 of cache_put, after the write
Insert(c, written, row) ==
    IF written.err # "ok" THEN [c |-> WithFs(c, written.fs), raised |-> TRUE]
    ELSE [c |-> [WithFs(c, written.fs) EXCEPT !.rows = Append(@, row)],
          raised |-> FALSE]

\* A variant of Store that returns normally when the folder was not made
Store_quiet(c, made, url, data, gmt, file_folder_relative, file_name) ==
    IF made.err # "ok" THEN [c |-> WithFs(c, made.fs), raised |-> FALSE]
    ELSE The({Insert(c, written,
                     [gmt_created |-> gmt, url |-> url,
                      file_path_relative |->
                          file_folder_relative \o <<"/">> \o file_name,
                      file_length |-> Len(data)]) :
                 written \in {open_wb_write(made.fs,
                                            Prefix \o <<"/">> \o file_folder_relative
                                                   \o <<"/">> \o file_name,
                                            data)}})

\* Lines 122-131 of cache_put, after the folder
Store(c, made, url, data, gmt, file_folder_relative, file_name) ==
    IF made.err # "ok" THEN [c |-> WithFs(c, made.fs), raised |-> TRUE]
    ELSE The({Insert(c, written,
                     [gmt_created |-> gmt, url |-> url,
                      file_path_relative |->
                          file_folder_relative \o <<"/">> \o file_name,
                      file_length |-> Len(data)]) :
                 written \in {open_wb_write(made.fs,
                                            Prefix \o <<"/">> \o file_folder_relative
                                                   \o <<"/">> \o file_name,
                                            data)}})

\* A variant of cache_put without the test of line 108: empty data is stored
cache_put_empty(c, url, data, t) ==
    IF ~is_url_valid_and_safe(url) THEN [c |-> c, raised |-> FALSE]
    ELSE The({Store(c, made, url, data, strftime(t), file_folder_relative,
                    cache_file_data_checksum(data)) :
                 file_folder_relative \in {From(url, Index(url, SEP) + 3)},
                 made \in {EnsureFolder(Fs(c), Prefix \o <<"/">>
                                                \o From(url, Index(url, SEP) + 3))}})

\* cache_put(url, data) at time t: the cache afterwards and whether the call
\* raised.  A call that raises keeps what it had done to the disk by then.
cache_put(c, url, data, t) ==
    IF Len(data) = 0 THEN [c |-> c, raised |-> FALSE]
    ELSE IF ~is_url_valid_and_safe(url) THEN [c |-> c, raised |-> FALSE]
    ELSE The({Store(c, made, url, data, strftime(t), file_folder_relative,
                    cache_file_data_checksum(data)) :
                 file_folder_relative \in {From(url, Index(url, SEP) + 3)},
                 made \in {EnsureFolder(Fs(c), Prefix \o <<"/">>
                                                \o From(url, Index(url, SEP) + 3))}})

-----------------------------------------------------------------------------
\* Inputs.

U_A == <<"h","t","t","p",":","/","/","h","/","a">>
U_AS == <<"h","t","t","p","s",":","/","/","h","/","a">>
U_AS_PAD == <<"h","t","t","p","s",":","/","/","h","/","a"," ">>
U_DB == <<"h","t","t","p",":","/","/","c","a","c","h","e",".","s","q","l","i","t","e","3">>
U_UP == <<"h","t","t","p",":","/","/",".",".","/","x">>
U_FTP == <<"f","t","p",":","/","/","x">>

\* The URLs the cache manager is called with directly
CacheURLs == {U_A, U_AS, U_DB, U_UP}
\* The URLs of the job lists handed to a pool run
JobURLs == {U_A, U_AS_PAD, U_DB, U_FTP}
\* The payloads: arguments of cache_put and bodies of 200 responses
Payloads == {B_EMPTY, B_A, B_B}

\* How far the clock may jump between two steps
Deltas == {1, timedelta_days(CACHE_VALID_DAYS)}

Workers == 1..MaxThreads

\* The headers mapping, as a set of <<key, value>> pairs
NoHeaders == {}
USER_AGENT == "Mozilla/5.0 (Windows NT 10.0; Win64; x64) AppleWebKit/537.36 (KHTML, like Gecko) Chrome/74.0.3729.11 Safari/537.36"

http_headers_set_default(headers, k, v) ==
    IF \E h \in headers : h[1] = k THEN headers ELSE headers \cup {<<k, v>>}

JobLists ==
    UNION {[1..n -> {<<u, NoHeaders>> : u \in JobURLs}] : n \in 1..MaxJobs}

-----------------------------------------------------------------------------
\* State.

Cache == [rows |-> rows, dirs |-> dirs, files |-> files]

SetCache(c) ==
    /\ rows' = c.rows
    /\ dirs' = c.dirs
    /\ files' = c.files

\* A call on the cache manager, as the caller saw it: op and url, the data (put:
\* the argument; get: the bytes returned), flag (put: the call raised; get: it
\* returned bytes) and age (get: now - gmt_created of the row it selected, or
\* -1 when it selected none).
NoCall == [op |-> "none", url |-> <<>>, data |-> <<>>, flag |-> FALSE, age |-> -1]
Call(op, url, data, flag, age) ==
    [op |-> op, url |-> url, data |-> data, flag |-> flag, age |-> age]

\* now - created_at of the row cache_get(url) selects, in ticks
Age(c, url, t) ==
    IF Selected(c.rows, url) = {} THEN -1
    ELSE t - strptime(c.rows[FirstOf(Selected(c.rows, url))].gmt_created)

NoJob == [id |-> 0, url |-> <<>>, headers |-> {}]

Init ==
    /\ rows = <<>>
    /\ dirs = {<<>>, PrefixPath}
    /\ files = [p \in {DbPath} |-> DbBytes]
    /\ now = 0
    /\ ticks = 0
    /\ last = NoCall
    /\ phase = "idle"
    /\ runs = 0
    /\ seeded = <<>>
    /\ queue_jobs_todo = <<>>
    /\ queue_cache_mgr = <<>>
    /\ pc = [w \in Workers |-> "unborn"]
    /\ job = [w \in Workers |-> NoJob]
    /\ tries = [w \in Workers |-> 0]
    /\ content = [w \in Workers |-> <<>>]
    /\ requests = <<>>
    /\ delivered = <<>>
    /\ committed = <<>>

-----------------------------------------------------------------------------
\* The clock.

Tick(d) ==
    /\ ticks < MaxTicks
    /\ now' = now + d
    /\ ticks' = ticks + 1
    /\ last' = NoCall
    /\ UNCHANGED <<cache_vars, pool_vars>>

-----------------------------------------------------------------------------
\* Direct calls on a cache manager.

Returned(op, url, data, flag, age, c) ==
    /\ SetCache(c)
    /\ last' = Call(op, url, data, flag, age)

PutReturned(url, data, res) == Returned("put", url, data, res.raised, -1, res.c)
GetReturned(url, res) ==
    Returned("get", url, res.ret.data, res.ret.found, Age(Cache, url, now), res.c)

Put(url, data) ==
    /\ Len(rows) < MaxRows
    /\ PutReturned(url, data, cache_put(Cache, url, data, now))
    /\ UNCHANGED <<now, ticks, pool_vars>>

Get(url, verify_checksum) ==
    /\ GetReturned(url, cache_get(Cache, url, FALSE, verify_checksum, now))
    /\ UNCHANGED <<now, ticks, pool_vars>>

Drop(url) ==
    /\ Returned("drop", url, <<>>, FALSE, -1, cache_drop(Cache, url, now))
    /\ UNCHANGED <<now, ticks, pool_vars>>

NextCache ==
    \/ \E d \in Deltas : Tick(d)
    \/ \E u \in CacheURLs, d \in Payloads : Put(u, d)
    \/ \E u \in CacheURLs, v \in BOOLEAN : Get(u, v)
    \/ \E u \in CacheURLs : Drop(u)

SpecCache == Init /\ [][NextCache]_vars

-----------------------------------------------------------------------------
\* Direct calls with any text for a URL, on a cache directory that another
\* program may write to.

\* Text that is not a URL: url, which is also the name of a column
U_COL == COL_URL
\* A folder below the sqlite3 file, reached through a directory that does not
\* exist yet
U_VIA == <<"h","t","t","p",":","/","/","n","/",".",".","/",
           "c","a","c","h","e",".","s","q","l","i","t","e","3","/","x">>

StoreURLs == {U_A, U_AS, U_COL, U_VIA}

\* The bytes of the blob at path are replaced by other bytes of the same length
Corrupt(path, data) ==
    /\ path \in DOMAIN files \ {DbPath}
    /\ data # files[path]
    /\ Len(data) = Len(files[path])
    /\ files' = [files EXCEPT ![path] = data]
    /\ last' = NoCall
    /\ UNCHANGED <<rows, dirs, now, ticks, pool_vars>>

NextStore ==
    \/ \E d \in Deltas : Tick(d)
    \/ \E u \in StoreURLs, d \in Payloads : Put(u, d)
    \/ \E u \in StoreURLs, v \in BOOLEAN : Get(u, v)
    \/ \E u \in StoreURLs : Drop(u)
    \/ \E path \in DOMAIN files, d \in Payloads : Corrupt(path, d)

SpecStore == Init /\ [][NextStore]_vars

-----------------------------------------------------------------------------
\* The cache manager called with URLs whose folder is, or lies below, a file
\* that exists: the sqlite3 file, or the file an earlier cache_put wrote.

\* http://h/a/<md5 of a>: its folder is the file cache_put(U_A, B_A) writes
U_BLOB == U_A \o <<"/">> \o MD5_A
CollideURLs == {U_A, U_DB, U_VIA, U_BLOB}

NextCollide ==
    \/ \E d \in Deltas : Tick(d)
    \/ \E u \in CollideURLs, d \in Payloads : Put(u, d)
    \/ \E u \in CollideURLs, v \in BOOLEAN : Get(u, v)
    \/ \E u \in CollideURLs : Drop(u)

SpecCollide == Init /\ [][NextCollide]_vars

-----------------------------------------------------------------------------
\* DownloadWorker.init_and_submit_direct_jobs(prefix, jobs, threads): the
\* steps up to the spawning of the workers, and the return from gevent.wait.

\* Lines 255-266: the loop over jobs.  acc is [c, jobs_filtered]; cache_get
\* may evict on the way.
FilterStep(acc, url, headers, res) ==
    [c |-> res.c,
     jobs |-> IF res.ret.found /\ res.ret.data # <<>> THEN acc.jobs
              ELSE IF is_url_valid_and_safe(url)
                   THEN Append(acc.jobs, [url |-> url, headers |-> headers])
              ELSE acc.jobs]

FilterJob(acc, url, headers, t) ==
    FilterStep(acc, url, headers, cache_get(acc.c, url, FALSE, TRUE, t))

RECURSIVE FilterJobs(_, _, _)
FilterJobs(acc, jobs, t) ==
    IF jobs = <<>> THEN acc
    ELSE FilterJobs(FilterJob(acc, Strip(Head(jobs)[1]),
                              http_headers_set_default(Head(jobs)[2],
                                                       "User-Agent", USER_AGENT),
                              t),
                    Tail(jobs), t)

\* Lines 227-232, DownloadWorker.init(cache_manager, jobs), and lines 269-273
Spawn(filtered, threads) ==
    /\ SetCache(filtered.c)
    /\ seeded' = filtered.jobs
    /\ queue_jobs_todo' = [i \in 1..Len(filtered.jobs) |->
                              [id |-> i, url |-> filtered.jobs[i].url,
                               headers |-> filtered.jobs[i].headers]]
    /\ queue_cache_mgr' = <<"cache_manager">>
    /\ pc' = [w \in Workers |-> IF w <= threads THEN "loop" ELSE "unborn"]
    /\ job' = [w \in Workers |-> NoJob]
    /\ tries' = [w \in Workers |-> 0]
    /\ content' = [w \in Workers |-> <<>>]
    /\ requests' = [i \in 1..Len(filtered.jobs) |-> 0]
    /\ delivered' = [i \in 1..Len(filtered.jobs) |-> <<>>]
    /\ committed' = [i \in 1..Len(filtered.jobs) |-> <<>>]

init_and_submit_direct_jobs(jobs, threads) ==
    /\ phase \in {"idle", "returned"}
    /\ runs < MaxRuns
    /\ runs' = runs + 1
    /\ phase' = "running"
    /\ Spawn(FilterJobs([c |-> Cache, jobs |-> <<>>], jobs, now), threads)
    /\ last' = NoCall
    /\ UNCHANGED <<now, ticks>>

\* The greenlet of w has ended (a worker beyond threads was never spawned)
Finished(w) == pc[w] \in {"done", "dead", "unborn"}

\* Line 274: gevent.wait(gevent_jobs) returns once every greenlet has ended
wait_returns ==
    /\ phase = "running"
    /\ \A w \in Workers : Finished(w)
    /\ phase' = "returned"
    /\ UNCHANGED <<cache_vars, now, ticks, last, runs, seeded, queue_jobs_todo,
                   queue_cache_mgr, pc, job, tries, content, requests, delivered, committed>>

-----------------------------------------------------------------------------
\* DownloadWorker.download, one greenlet w.

\* Line 191: while len(self.queue_jobs_todo) > 0
loop_test(w) ==
    /\ pc[w] = "loop"
    /\ pc' = [pc EXCEPT ![w] = IF Len(queue_jobs_todo) > 0 THEN "get" ELSE "done"]
    /\ UNCHANGED <<cache_vars, now, ticks, last, phase, runs, seeded, queue_jobs_todo,
                   queue_cache_mgr, job, tries, content, requests, delivered, committed>>

\* A variant of Dequeue that reads the head of the queue and leaves it there
Dequeue_peek(w, q) ==
    /\ queue_jobs_todo' = q
    /\ job' = [job EXCEPT ![w] = Head(q)]
    /\ delivered' = [delivered EXCEPT ![Head(q).id] = Append(@, w)]

\* Lines 193, 196-198: queue_jobs_todo.get returns a job
Dequeue(w, q) ==
    /\ queue_jobs_todo' = Tail(q)
    /\ job' = [job EXCEPT ![w] = Head(q)]
    /\ delivered' = [delivered EXCEPT ![Head(q).id] = Append(@, w)]

get_job(w) ==
    /\ pc[w] = "get"
    /\ Len(queue_jobs_todo) > 0
    /\ Dequeue(w, queue_jobs_todo)
    /\ tries' = [tries EXCEPT ![w] = TRIES]
    /\ pc' = [pc EXCEPT ![w] = "request"]
    /\ UNCHANGED <<cache_vars, now, ticks, last, phase, runs, seeded,
                   queue_cache_mgr, content, requests, committed>>

\* Lines 193-195: the get times out on an empty queue
get_job_empty(w) ==
    /\ pc[w] = "get"
    /\ Len(queue_jobs_todo) = 0
    /\ pc' = [pc EXCEPT ![w] = "loop"]
    /\ UNCHANGED <<cache_vars, now, ticks, last, phase, runs, seeded, queue_jobs_todo,
                   queue_cache_mgr, job, tries, content, requests, delivered, committed>>

Requested(w) == requests' = [requests EXCEPT ![job[w].id] = @ + 1]

\* Lines 203-207: the response has status 200; commit_job is entered
response_200(w, body) ==
    /\ pc[w] = "request"
    /\ Requested(w)
    /\ content' = [content EXCEPT ![w] = body]
    /\ committed' = [committed EXCEPT ![job[w].id] = Append(@, body)]
    /\ pc' = [pc EXCEPT ![w] = "acquire"]
    /\ UNCHANGED <<cache_vars, now, ticks, last, phase, runs, seeded, queue_jobs_todo,
                   queue_cache_mgr, job, tries, delivered>>

\* A variant of response_other that puts the job back on the queue
response_other_requeue(w) ==
    /\ pc[w] = "request"
    /\ Requested(w)
    /\ queue_jobs_todo' = Append(queue_jobs_todo, job[w])
    /\ pc' = [pc EXCEPT ![w] = "loop"]
    /\ UNCHANGED <<cache_vars, now, ticks, last, phase, runs, seeded,
                   queue_cache_mgr, job, tries, content, delivered, committed>>

\* Lines 203-204, 208-210: the response has another status
response_other(w) ==
    /\ pc[w] = "request"
    /\ Requested(w)
    /\ pc' = [pc EXCEPT ![w] = "loop"]
    /\ UNCHANGED <<cache_vars, now, ticks, last, phase, runs, seeded, queue_jobs_todo,
                   queue_cache_mgr, job, tries, content, delivered, committed>>

\* A variant of Retry that gives up one failure early
Retry_short(w, left) ==
    /\ tries' = [tries EXCEPT ![w] = left]
    /\ pc' = [pc EXCEPT ![w] = IF left <= 1 THEN "dead" ELSE "request"]

\* Lines 211-216: session.get raised
Retry(w, left) ==
    /\ tries' = [tries EXCEPT ![w] = left]
    /\ pc' = [pc EXCEPT ![w] = IF left = 0 THEN "dead" ELSE "request"]

request_failed(w) ==
    /\ pc[w] = "request"
    /\ Requested(w)
    /\ Retry(w, tries[w] - 1)
    /\ UNCHANGED <<cache_vars, now, ticks, last, phase, runs, seeded, queue_jobs_todo,
                   queue_cache_mgr, job, content, delivered, committed>>

-----------------------------------------------------------------------------
\* DownloadWorker.commit_job, called by greenlet w.

\* A variant of acquire that reads the manager and leaves it on its queue
acquire_peek(w) ==
    /\ pc[w] = "acquire"
    /\ Len(queue_cache_mgr) > 0
    /\ queue_cache_mgr' = queue_cache_mgr
    /\ pc' = [pc EXCEPT ![w] = "put"]
    /\ UNCHANGED <<cache_vars, now, ticks, last, phase, runs, seeded, queue_jobs_todo,
                   job, tries, content, requests, delivered, committed>>

\* Line 166: queue_cache_mgr.get returns the manager
acquire(w) ==
    /\ pc[w] = "acquire"
    /\ Len(queue_cache_mgr) > 0
    /\ queue_cache_mgr' = Tail(queue_cache_mgr)
    /\ pc' = [pc EXCEPT ![w] = "put"]
    /\ UNCHANGED <<cache_vars, now, ticks, last, phase, runs, seeded, queue_jobs_todo,
                   job, tries, content, requests, delivered, committed>>

\* Lines 166-168: the get times out, and the loop goes round
acquire_empty(w) ==
    /\ pc[w] = "acquire"
    /\ Len(queue_cache_mgr) = 0
    /\ pc' = [pc EXCEPT ![w] = "again"]
    /\ UNCHANGED <<cache_vars, now, ticks, last, phase, runs, seeded, queue_jobs_todo,
                   queue_cache_mgr, job, tries, content, requests, delivered, committed>>

\* Line 164: while True
again(w) ==
    /\ pc[w] = "again"
    /\ pc' = [pc EXCEPT ![w] = "acquire"]
    /\ UNCHANGED <<cache_vars, now, ticks, last, phase, runs, seeded, queue_jobs_todo,
                   queue_cache_mgr, job, tries, content, requests, delivered, committed>>

\* Lines 169-173: cache_put returns, or raises and commit_job returns
AfterPut(w, res) ==
    /\ PutReturned(job[w].url, content[w], res)
    /\ pc' = [pc EXCEPT ![w] = IF res.raised THEN "loop" ELSE "release"]
    /\ content' = [content EXCEPT ![w] = IF res.raised THEN <<>> ELSE @]

put(w) ==
    /\ pc[w] = "put"
    /\ \E res \in {cache_put(Cache, job[w].url, content[w], now)} : AfterPut(w, res)
    /\ UNCHANGED <<now, ticks, phase, runs, seeded, queue_jobs_todo,
                   queue_cache_mgr, job, tries, requests, delivered, committed>>

\* Lines 174-175: the manager goes back on its queue
release(w) ==
    /\ pc[w] = "release"
    /\ queue_cache_mgr' = Append(queue_cache_mgr, "cache_manager")
    /\ pc' = [pc EXCEPT ![w] = "loop"]
    /\ content' = [content EXCEPT ![w] = <<>>]
    /\ UNCHANGED <<cache_vars, now, ticks, last, phase, runs, seeded, queue_jobs_todo,
                   job, tries, requests, delivered, committed>>

Worker(w) ==
    \/ loop_test(w)
    \/ get_job(w)
    \/ get_job_empty(w)
    \/ \E body \in Payloads : response_200(w, body)
    \/ response_other(w)
    \/ request_failed(w)
    \/ acquire(w)
    \/ acquire_empty(w)
    \/ again(w)
    \/ put(w)
    \/ release(w)

Next ==
    \/ \E jobs \in JobLists, threads \in 1..MaxThreads :
          init_and_submit_direct_jobs(jobs, threads)
    \/ wait_returns
    \/ \E w \in Workers : Worker(w)

Spec == Init /\ [][Next]_vars

\* The greenlets are scheduled fairly and every request ends.
SpecLive == Spec /\ (\A w \in Workers : WF_vars(Worker(w))) /\ WF_vars(wait_returns)

-----------------------------------------------------------------------------
\* Calls of the static method is_url_valid_and_safe.

\* How the text begins, and the characters that follow: one or two of each
\* kind that line 54 tells apart, and some it accepts none of
Schemes == {<<"h","t","t","p",":","/","/">>, <<"h","t","t","p","s",":","/","/">>,
            <<"f","t","p",":","/","/">>, <<"h","t","t","p",":","/">>,
            <<"H","T","T","P",":","/","/">>, <<" ","h","t","t","p",":","/","/">>,
            <<>>}
TailChars == {"a", "z", "A", "Z", "0", "9", "/", "=", "-", "_", ":", ",", ".",
              " ", "?", "%", "@"}
MaxTail == 2
Tails == UNION {[1..n -> TailChars] : n \in 0..MaxTail}
UrlInputs == {scheme \o tail : scheme \in Schemes, tail \in Tails}

Validate(url) ==
    /\ last' = Call("valid", url, <<>>, is_url_valid_and_safe(url), -1)
    /\ UNCHANGED <<cache_vars, now, ticks, pool_vars>>

NextUrl == \E url \in UrlInputs : Validate(url)

SpecUrl == Init /\ [][NextUrl]_vars

-----------------------------------------------------------------------------
\* A pool run of one worker on a cache that earlier calls have filled.

\* The URLs stored before the run; both are stored under <prefix>/h/a
WarmURLs == {U_A, U_AS}

\* With a single worker the queue is never found empty by get (line 193).
NextWarm ==
    \/ phase = "idle" /\ \E d \in Deltas : Tick(d)
    \/ phase = "idle" /\ \E u \in WarmURLs : Put(u, B_A)
    \/ \E jobs \in JobLists : init_and_submit_direct_jobs(jobs, 1)
    \/ wait_returns
    \/ loop_test(1)
    \/ get_job(1)
    \/ \E body \in Payloads : response_200(1, body)
    \/ response_other(1)
    \/ request_failed(1)
    \/ acquire(1)
    \/ acquire_empty(1)
    \/ again(1)
    \/ put(1)
    \/ release(1)

SpecWarm == Init /\ [][NextWarm]_vars

-----------------------------------------------------------------------------
\* Claims.

\* 3 days, in ticks
TTL == timedelta_days(3)

\* The workers between taking the manager (line 166) and putting it back (line 174)
Holders == {w \in Workers : pc[w] \in {"put", "release"}}

\* The workers whose request is on the network (line 203)
Fetching == {w \in Workers : pc[w] = "request"}

\* The stored blobs: every regular file but the sqlite3 file
Blobs == DOMAIN files \ {DbPath}

JobIds == 1..Len(seeded)
QueuedIds == {queue_jobs_todo[i].id : i \in 1..Len(queue_jobs_todo)}

\* C1: at most one worker holds the cache manager at any instant, and the
\* manager is never both on its queue and held, however many workers there are.
C1_OneHolder ==
    /\ Cardinality(Holders) <= 1
    /\ Cardinality(Holders) + Len(queue_cache_mgr) <= 1

\* C1 witness: one worker is inside cache_put while another one found the
\* manager's queue empty and waits for it.
C1_Witness ==
    \E w1, w2 \in Workers : pc[w1] = "put" /\ pc[w2] = "again"

\* C1, the fetch phase: all workers have a request on the network at once.
C1_ParallelFetch == Cardinality(Fetching) = MaxThreads

\* C2: whenever a pool runs and no worker is inside the critical section of
\* commit_job, queue_cache_mgr holds exactly one cache manager.
C2_TokenReturned ==
    (phase = "running" /\ Holders = {}) => Len(queue_cache_mgr) = 1

\* C3: under fair scheduling, with every request answered, a pool that was
\* started completes: the wait on all workers returns.
C3_PoolCompletes == (phase = "running") ~> (phase = "returned")

\* C4: cache_put(url, data) with a valid URL and non-empty data, followed at
\* once by cache_get(url), returns exactly data.
C4_RoundTrip ==
    [][(/\ last.op = "put" /\ ~last.flag
        /\ is_url_valid_and_safe(last.url) /\ last.data # <<>>
        /\ last'.op = "get" /\ last'.url = last.url)
       => (last'.flag /\ last'.data = last.data)]_vars

\* C5: the table holds at most one row per URL.
C5_UrlUnique ==
    \A i, j \in 1..Len(rows) : rows[i].url = rows[j].url => i = j

\* C6: when the pool has completed after N workers committed N pairwise
\* distinct URLs, each with a non-empty payload, the table holds exactly N
\* rows and the blob store exactly N files.
C6_NRowsNFiles ==
    (/\ phase = "returned"
     /\ \A i, j \in JobIds : seeded[i].url = seeded[j].url => i = j
     /\ \A i \in JobIds : Len(committed[i]) = 1 /\ committed[i][1] # <<>>
     /\ \A i, j \in JobIds : delivered[i] = delivered[j] => i = j)
    => (Len(rows) = Len(seeded) /\ Cardinality(Blobs) = Len(seeded))

\* C7: every directory and file that exists lies inside the cache root (the
\* root directory "/" and the cache root themselves apart).
Inside(path) == Len(path) >= Len(PrefixPath) /\ SubSeq(path, 1, Len(PrefixPath)) = PrefixPath
C7_Contained ==
    \A path \in (dirs \cup DOMAIN files) \ {<<>>} : Inside(path)

\* C8: a worker that gave up has made exactly 5 requests for its job, all of
\* them its own; the job is not back on the queue and commit_job was never
\* called for it; and the worker stays where it is and takes no other job.
C8_Exhausted(w) ==
    /\ tries[w] = 0
    /\ requests[job[w].id] = 5
    /\ delivered[job[w].id] = <<w>>
    /\ job[w].id \notin QueuedIds
    /\ committed[job[w].id] = <<>>
C8_RetryExhaustion ==
    /\ [](\A w \in Workers : pc[w] = "dead" => C8_Exhausted(w))
    /\ [][\A w \in Workers :
            (pc[w] = "dead" /\ runs' = runs) =>
                (/\ pc'[w] = "dead" /\ job'[w] = job[w]
                 /\ requests'[job[w].id] = requests[job[w].id]
                 /\ delivered'[job[w].id] = delivered[job[w].id])]_vars

\* C8 witness: a worker gave up while jobs were still on the queue.
C8_Witness ==
    \E w \in Workers : pc[w] = "dead" /\ Len(queue_jobs_todo) > 0

\* C9 as stated: cache_get serves a row only when its age is under 3 days,
\* and a row aged 3 days or more is evicted and reported not found.
C9_StrictTTL ==
    (last.op = "get" /\ last.age >= 0) =>
        /\ last.flag => last.age < TTL
        /\ last.age >= TTL => (~last.flag /\ Selected(rows, last.url) = {})

\* The row cache_get(url) selects has its file in place, with the length and
\* the checksum the row and the file name give.
C9_Intact(url) ==
    LET r == rows[FirstOf(Selected(rows, url))]
        file_path == Prefix \o <<"/">> \o r.file_path_relative
    IN /\ isfile(Fs(Cache), file_path)
       /\ ~Broken(read(Fs(Cache), file_path), r.file_length, file_path, TRUE)

\* C9 amended: cache_get serves a row only when its age is at most 3 days; a
\* row aged more than 3 days is evicted and reported not found, whatever the
\* state of its file; and a row aged 3 days or less, the boundary age of
\* exactly 3 days included, is served when its file is intact.
C9_TTL ==
    /\ []((last.op = "get" /\ last.age >= 0) =>
             /\ last.flag => last.age <= TTL
             /\ last.age > TTL => (~last.flag /\ Selected(rows, last.url) = {}))
    /\ [][\A url \in CacheURLs :
            (/\ last'.op = "get" /\ last'.url = url
             /\ Selected(rows, url) # {}
             /\ Age(Cache, url, now) <= TTL
             /\ C9_Intact(url))
            => last'.flag]_vars

\* C9 witness: a cache_get served a row aged exactly 3 days.
C9_Witness == last.op = "get" /\ last.age = TTL /\ last.flag

\* C9, past the boundary: a cache_get found a row older than 3 days and
\* reported it not found, another row staying in the table.
C9_Expired ==
    /\ last.op = "get" /\ last.age > TTL /\ ~last.flag
    /\ Len(rows) > 0

\* C10 as stated: when the pool has completed, every seeded job was dequeued
\* by exactly one worker.
C10_AllDelivered ==
    phase = "returned" => \A i \in JobIds : Len(delivered[i]) = 1

\* C10 amended: no job is dequeued twice, a job not yet dequeued is still on
\* the queue, and when the pool has completed with at least one worker having
\* left its loop on an empty queue, every seeded job was dequeued by exactly
\* one worker.
C10_ExactlyOnce ==
    /\ \A i \in JobIds : Len(delivered[i]) <= 1
    /\ \A i \in JobIds : Len(delivered[i]) = 0 <=> i \in QueuedIds
    /\ Cardinality(QueuedIds) = Len(queue_jobs_todo)
    /\ (phase = "returned" /\ \E w \in Workers : pc[w] = "done")
         => \A i \in JobIds : Len(delivered[i]) = 1

\* C10 witness: a completed pool of two jobs, one worker having given up and
\* the other having drained the queue.
C10_Witness ==
    /\ phase = "returned"
    /\ Len(seeded) = 2
    /\ \E w1, w2 \in Workers : pc[w1] = "dead" /\ pc[w2] = "done"

-----------------------------------------------------------------------------
\* The row cache_get(url) selects, the path of its file and the last
\* component of that path
RowOf(url) == rows[FirstOf(Selected(rows, url))]
PathOf(url) == Prefix \o <<"/">> \o RowOf(url).file_path_relative
NameOf(url) == Split(PathOf(url))[Len(Split(PathOf(url)))]
HasRow(url) == \E i \in 1..Len(rows) : rows[i].url = url
Expired(url) == Age(Cache, url, now) > TTL

\* The cache after the step
CacheAfter == [rows |-> rows', dirs |-> dirs', files |-> files']

\* The file at path, of the row of url, holds data: bytes of the recorded
\* length that do not hash to the name of the file.
C11_Replaced(url, path, data) ==
    /\ Len(data) = RowOf(url).file_length
    /\ cache_file_data_checksum(data) # Split(path)[Len(Split(path))]

\* C11: when the bytes of a stored file were replaced by other bytes of the
\* same length, cache_get(url, verify_checksum=True) returns not-found and
\* removes the row and the file, and cache_get(url, verify_checksum=False) on
\* an entry that has not expired returns the replaced bytes and changes nothing.
C11_Integrity ==
    [][last'.op = "get" =>
         \A url \in {last'.url} : HasRow(url) =>
           \A path \in {PathOf(url)} : isfile(Fs(Cache), path) =>
             \A data \in {read(Fs(Cache), path)} : C11_Replaced(url, path, data) =>
               /\ Get(url, TRUE) =>
                     /\ ~last'.flag
                     /\ Selected(rows', url) = {}
                     /\ ~exists(Fs(CacheAfter), path)
               /\ (Get(url, FALSE) /\ ~Expired(url)) =>
                     /\ last'.flag
                     /\ last'.data = data
                     /\ UNCHANGED cache_vars]_vars

\* C11 witness: a cache_get returned bytes that do not hash to the name of
\* the file they were read from.
C11_Witness ==
    /\ last.op = "get" /\ last.flag
    /\ HasRow(last.url)
    /\ cache_file_data_checksum(last.data) # NameOf(last.url)

\* C12: cache_put with empty data, or with a URL that is_url_valid_and_safe
\* rejects, returns without raising and leaves the rows, the directories and
\* the files as they were; and no row has length 0 or a URL the predicate
\* rejects.
C12_Refusal ==
    /\ [](\A i \in 1..Len(rows) :
            rows[i].file_length # 0 /\ is_url_valid_and_safe(rows[i].url))
    /\ [][(/\ last'.op = "put"
           /\ (last'.data = <<>> \/ ~is_url_valid_and_safe(last'.url)))
          => (~last'.flag /\ UNCHANGED cache_vars)]_vars

\* C12 witness: a cache that holds a row has just refused a put, of empty
\* data in one case and of text that is no URL in the other.
C12_Witness ==
    /\ last.op = "put" /\ ~last.flag /\ Len(rows) > 0
    /\ \/ last.data = <<>> /\ is_url_valid_and_safe(last.url)
       \/ last.data # <<>> /\ ~is_url_valid_and_safe(last.url)

\* Row i is a fresh entry: not older than 3 days, its file in place with the
\* recorded length and the checksum of its name.
FreshRow(i) ==
    /\ now - strptime(rows[i].gmt_created) <= TTL
    /\ \A path \in {Prefix \o <<"/">> \o rows[i].file_path_relative} :
          /\ isfile(Fs(Cache), path)
          /\ ~Broken(read(Fs(Cache), path), rows[i].file_length, path, TRUE)
FreshEntry(url) == \E i \in 1..Len(rows) : rows[i].url = url /\ FreshRow(i)

\* C13: every job that init_and_submit_direct_jobs puts on the queue has a
\* URL that is_url_valid_and_safe accepts and that had no fresh entry when the
\* call began; and the workers request the URLs of those jobs only.
C13_BootstrapFilter ==
    /\ [][(phase = "idle" /\ phase' = "running") =>
            \A i \in 1..Len(seeded') :
                /\ is_url_valid_and_safe(seeded'[i].url)
                /\ ~FreshEntry(seeded'[i].url)]_vars
    /\ [](\A w \in Workers : pc[w] = "request" =>
            job[w].id \in JobIds /\ job[w].url = seeded[job[w].id].url)

\* The characters [A-Za-z0-9/=-_:,.]
C14_Class == Lower \cup Upper \cup Digit \cup {"/", "=", "-", "_", ":", ",", "."}

\* url begins with text
C14_Begins(url, text) ==
    Len(url) >= Len(text) /\ \A i \in 1..Len(text) : url[i] = text[i]

\* The positions of url after its first "://"
C14_Rest(url) ==
    {i \in 1..Len(url) :
        \E k \in 1..(i - 3) :
            /\ url[k] = ":" /\ url[k + 1] = "/" /\ url[k + 2] = "/"
            /\ i > k + 2
            /\ \A j \in 1..(k - 1) :
                  ~(url[j] = ":" /\ url[j + 1] = "/" /\ url[j + 2] = "/")}

C14_Accepts(url) ==
    /\ C14_Begins(url, <<"h","t","t","p",":","/","/">>)
          \/ C14_Begins(url, <<"h","t","t","p","s",":","/","/">>)
    /\ \A i \in C14_Rest(url) : url[i] \in C14_Class

\* C14: is_url_valid_and_safe(url) is true exactly when url begins with
\* http:// or https:// and every character after the first :// is one of
\* [A-Za-z0-9/=-_:,.]; a URL with a space and a URL of scheme ftp are
\* rejected; and the call changes nothing.
C14_Predicate ==
    /\ [](last.op = "valid" =>
            /\ last.flag = C14_Accepts(last.url)
            /\ (\E i \in 1..Len(last.url) : last.url[i] = " ") => ~last.flag
            /\ C14_Begins(last.url, <<"f","t","p",":","/","/">>) => ~last.flag)
    /\ [][last'.op = "valid" =>
            UNCHANGED <<cache_vars, now, ticks, pool_vars>>]_vars

\* C14 witness: an https URL was rejected for a space after a character that
\* is accepted.
C14_Witness ==
    /\ last.op = "valid" /\ ~last.flag
    /\ last.url = <<"h","t","t","p","s",":","/","/","a"," ">>

\* C14, acceptance: an https URL of accepted characters was accepted.
C14_Accepted ==
    /\ last.op = "valid" /\ last.flag
    /\ last.url = <<"h","t","t","p","s",":","/","/","Z","-">>

\* C15: cache_drop(url) leaves no row for url; the file of every row that
\* url had is gone afterwards; and when url had no row, the rows, the
\* directories and the files are as they were.
C15_Drop ==
    [][last'.op = "drop" =>
         \A url \in {last'.url} :
            /\ \A i \in 1..Len(rows') : rows'[i].url # url
            /\ \A i \in 1..Len(rows) : rows[i].url = url =>
                  ~exists(Fs(CacheAfter), Prefix \o <<"/">> \o rows[i].file_path_relative)
            /\ ~HasRow(url) => UNCHANGED cache_vars]_vars

\* Job i was dequeued, commit_job was never called for it, and no worker is
\* requesting it or has given up on it: a response other than 200 ended it.
C16_Discarded(i) ==
    /\ delivered[i] # <<>>
    /\ committed[i] = <<>>
    /\ \A w \in Workers : job[w].id = i => pc[w] \in {"loop", "get", "done"}

\* C16: a job ended by a response other than 200 is not on the queue, is
\* never requested or dequeued again and never committed; and the step that
\* ends it takes the worker back to its loop with the queues, the manager's
\* queue included, and the cache as they were.
C16_NonOk ==
    /\ [](\A i \in JobIds : C16_Discarded(i) =>
            i \notin QueuedIds /\ requests[i] >= 1)
    /\ [][runs' = runs =>
            \A i \in JobIds : C16_Discarded(i) =>
                /\ requests'[i] = requests[i]
                /\ delivered'[i] = delivered[i]
                /\ committed'[i] = <<>>]_vars
    /\ [][\A w \in Workers : (pc[w] = "request" /\ pc'[w] = "loop") =>
            /\ UNCHANGED <<queue_jobs_todo, queue_cache_mgr, committed>>
            /\ UNCHANGED cache_vars]_vars

\* C16 witness: a worker whose first job was ended by a response other than
\* 200 is requesting its next job.
C16_Witness ==
    \E w \in Workers, i \in JobIds :
        /\ C16_Discarded(i) /\ delivered[i] = <<w>>
        /\ pc[w] = "request" /\ job[w].id # i

\* The entry of url violates a freshness condition: it has expired, its file
\* at path is missing, or the file has another length than recorded or, with
\* verify_checksum, bytes that do not hash to its name.
C17_Violated(url, path, verify_checksum) ==
    \/ Expired(url)
    \/ ~isfile(Fs(Cache), path)
    \/ Broken(read(Fs(Cache), path), RowOf(url).file_length, path, verify_checksum)

\* C17: cache_get(url) of a URL without row returns not-found and changes
\* nothing; of an entry that violates a freshness condition it returns
\* not-found, and afterwards url has no row and the file is gone; of any other
\* entry it returns the bytes of the file and changes nothing.
C17_LazyEviction ==
    [][last'.op = "get" =>
         \A url \in {last'.url} :
            IF ~HasRow(url)
            THEN ~last'.flag /\ UNCHANGED cache_vars
            ELSE \A path \in {PathOf(url)}, v \in BOOLEAN : Get(url, v) =>
                    IF C17_Violated(url, path, v)
                    THEN /\ ~last'.flag
                         /\ \A i \in 1..Len(rows') : rows'[i].url # url
                         /\ ~exists(Fs(CacheAfter), path)
                    ELSE /\ last'.flag
                         /\ last'.data = read(Fs(Cache), path)
                         /\ UNCHANGED cache_vars]_vars

\* The folder cache_put derives from url
C18_Folder(url) == Prefix \o <<"/">> \o From(url, Index(url, SEP) + 3)

\* The folder, or the path up to one of its components, is a regular file.
C18_Collides(folder) ==
    \E i \in 1..Len(folder) :
        /\ i = Len(folder) \/ folder[i + 1] = "/"
        /\ isfile(Fs(Cache), SubSeq(folder, 1, i))

\* C18: cache_put of non-empty data for a valid URL whose folder, or the path
\* up to one of the folder's components, is a regular file raises, and the
\* rows, the directories and the files are as they were.
C18_Collision ==
    [][(/\ last'.op = "put"
        /\ last'.data # <<>>
        /\ is_url_valid_and_safe(last'.url))
       => \A folder \in {C18_Folder(last'.url)} :
            C18_Collides(folder) => (last'.flag /\ UNCHANGED cache_vars)]_vars

\* C18 witness: a cache that holds a row has failed a put whose folder is the
\* sqlite3 file.
C18_Witness ==
    /\ last.op = "put" /\ last.flag /\ last.data # <<>>
    /\ last.url = U_DB
    /\ isfile(Fs(Cache), C18_Folder(U_DB))
    /\ Len(rows) > 0

\* C18, a component: the put failed below the sqlite3 file, reached through
\* a directory that exists.
C18_Below ==
    /\ last.op = "put" /\ last.flag /\ last.url = U_VIA
    /\ C18_Collides(C18_Folder(U_VIA))

\* C18, a stored file: the put failed on the file an earlier put wrote.
C18_OnBlob ==
    /\ last.op = "put" /\ last.flag /\ last.url = U_BLOB /\ last.data # <<>>
    /\ isfile(Fs(Cache), C18_Folder(U_BLOB))
    /\ \E i \in 1..Len(rows) : rows[i].url = U_A

\* url has a fresh entry: the row cache_get selects for it is a fresh row.
C19_Fresh(url) == HasRow(url) /\ FreshRow(FirstOf(Selected(rows, url)))

\* The rows of url are as they were, its file holds the bytes it held, and
\* cache_get(url) afterwards returns those bytes.
C19_Untouched(url, path, data) ==
    /\ {rows'[i] : i \in Selected(rows', url)} = {rows[i] : i \in Selected(rows, url)}
    /\ isfile(Fs(CacheAfter), path)
    /\ read(Fs(CacheAfter), path) = data
    /\ cache_get(CacheAfter, url, FALSE, TRUE, now).ret = [found |-> TRUE, data |-> data]

\* C19: when two distinct URLs u1 and u2 both have fresh entries, a
\* cache_drop(u1), or a cache_get(u1) that evicts, leaves the rows and the
\* file of u2 as they were, and cache_get(u2) still returns the bytes of u2.
C19_Isolation ==
    [][(last'.op = "drop" \/ (last'.op = "get" /\ rows' # rows)) =>
         \A u1 \in {last'.url} : C19_Fresh(u1) =>
            \A u2 \in CacheURLs \ {u1} : C19_Fresh(u2) =>
               \A path \in {PathOf(u2)} :
                  C19_Untouched(u2, path, read(Fs(Cache), path))]_vars

\* The files below the cache root, the sqlite3 file apart
C20_Blobs ==
    {p \in DOMAIN files \ {DbPath} :
        Len(p) > Len(PrefixPath) /\ SubSeq(p, 1, Len(PrefixPath)) = PrefixPath}

\* The file at p is the file of row i
C20_Refers(i, p) ==
    \A path \in {Prefix \o <<"/">> \o rows[i].file_path_relative} :
        isfile(Fs(Cache), path) /\ Walk(Fs(Cache), path).path = p

\* The path of row i ends in the checksum of bytes of the recorded length,
\* and the file at that path, when there is one, holds such bytes.
C20_SelfVerifying(i) ==
    \A path \in {Prefix \o <<"/">> \o rows[i].file_path_relative} :
      \A name \in {Split(path)[Len(Split(path))]} :
        /\ \E d \in Payloads :
              cache_file_data_checksum(d) = name /\ Len(d) = rows[i].file_length
        /\ isfile(Fs(Cache), path) =>
              \A data \in {read(Fs(Cache), path)} :
                 /\ cache_file_data_checksum(data) = name
                 /\ Len(data) = rows[i].file_length

\* C20: after any sequence of cache_put, cache_get and cache_drop, every file
\* below the cache root other than the sqlite3 file is the file of some row,
\* and the path of every row ends in the checksum of the bytes stored, of
\* the recorded length.
C20_Correspondence ==
    /\ \A p \in C20_Blobs : \E i \in 1..Len(rows) : C20_Refers(i, p)
    /\ \A i \in 1..Len(rows) : C20_SelfVerifying(i)

====
